---- MODULE Spec2Model ----
(***************************************************************************)
(* Model of backend/app.py of gitgrader: the /analyze-repository handler,  *)
(* the AI Judge call (chat_with_groq) and the rule-based Scorer            *)
(* (fallback_analysis).                                                     *)
(*                                                                         *)
(* Values.  JSON values that are not of the declared type are written     *)
(* with two markers: Null (JSON null / Python None) and NonStr (a JSON    *)
(* number where a string is declared).  A missing key is modelled by the  *)
(* default the code passes to dict.get.  Texts (the AI Judge's answer)    *)
(* are sequences of tokens; roadmap and security entries are named by    *)
(* short identifiers, one per string literal of the source (the language  *)
(* and the counts interpolated into an entry are the same for every       *)
(* entry of one call and are left out of the identifier).                 *)
(***************************************************************************)
EXTENDS Integers, Sequences, FiniteSets, TLC

VARIABLES
    groq_client,       \* TRUE iff the module-level Groq client was created
    judge,             \* what the AI Judge does if it is called in this run
    data,              \* the JSON payload of the request being handled
    pc,                \* position of the handler
    ai_response_text,  \* value returned by chat_with_groq: None or a text
    response,          \* what the handler returned: [status, body]
    judgeCalls,        \* number of completions.create calls of this request
    scorerCalls        \* number of fallback_analysis calls of this request

vars == <<groq_client, judge, data, pc, ai_response_text, response,
          judgeCalls, scorerCalls>>

\* ------------------------------------------------------------------ values
Null == "<null>"
NonStr == "<number>"
DefaultDescription == "development project"

\* Largest number of tokens of an AI Judge answer that the model enumerates.
MaxTextLen == 4

\* str.lower() on the strings the model uses.
Lower(s) ==
    CASE s = "JavaScript" -> "javascript"
      [] s = "Python" -> "python"
      [] s = "Java" -> "java"
      [] s = "Go" -> "go"
      [] s = "TypeScript" -> "typescript"
      [] s = "Multi-language" -> "multi-language"
      [] s = "A Parser" -> "a parser"
      [] OTHER -> s

\* Python truthiness of a string-or-null value.
Truthy(v) == v # Null /\ v # ""

\* configFiles is declared as a count; a list of file names is the other
\* shape a caller can send.  str(configFiles) is the decimal digits of the
\* count, or the printed list, in which each file name occurs verbatim.
IsCount(cf) == cf.typ = "int"

\* The needles the Scorer searches for, and the file names that contain them.
NamesContaining(needle) ==
    CASE needle = "gitignore" -> {".gitignore"}
      [] needle = "LICENSE" -> {"LICENSE"}
      [] needle = "config" -> {"config.yml"}
      [] needle = ".env" -> {".env"}
      [] needle = ".json" -> {"package.json"}
      [] needle = "package.json" -> {"package.json"}
      [] needle = "requirements.txt" -> {"requirements.txt"}
      [] needle = "pyproject.toml" -> {"pyproject.toml"}
      [] OTHER -> {}

\* Variant of InStr that takes a positive count for a match.
InStr_truthy_count(needle, cf) ==
    IF IsCount(cf) THEN cf.count > 0
    ELSE cf.names \cap NamesContaining(needle) # {}

\* needle in str(cf): the digits of a count contain no needle.
InStr(needle, cf) ==
    IF IsCount(cf) THEN FALSE ELSE cf.names \cap NamesContaining(needle) # {}

\* needle in str(cf).lower(): lower-casing changes LICENSE only, and no
\* needle of the lower-cased searches occurs in "license".
InStrLower(needle, cf) ==
    IF IsCount(cf) THEN FALSE
    ELSE (cf.names \ {"LICENSE"}) \cap NamesContaining(needle) # {}

\* ------------------------------------------------- Scorer: the five scores
\* Variant of code_quality in which every condition counts on its own.
code_quality_flat(fa) ==
      (IF fa.codeFiles > 0 THEN 10 ELSE 0)
    + (IF fa.hasSourceFolder THEN 5 ELSE 0)
    + (IF fa.configFiles.count > 0 THEN 5 ELSE 0)
    + (IF fa.hasLinting THEN 5 ELSE 0)

code_quality(fa) ==
    IF fa.codeFiles > 0
    THEN 10 + (IF fa.hasSourceFolder THEN 5 ELSE 0)
            + (IF fa.configFiles.count > 0 THEN 5 ELSE 0)
            + (IF fa.hasLinting THEN 5 ELSE 0)
    ELSE 0

documentation(ra) ==
    IF ra.hasReadme
    THEN 5 + (IF ra.length > 500 THEN 5 ELSE 0)
           + (IF ra.hasInstallation THEN 3 ELSE 0)
           + (IF ra.hasUsage THEN 3 ELSE 0)
           + (IF ra.hasExamples THEN 2 ELSE 0)
           + (IF ra.hasLicense THEN 2 ELSE 0)
    ELSE 0

structure(rs, fa) ==
      (IF rs.totalFiles > 5 THEN 5 ELSE 0)
    + (IF rs.totalFiles > 15 THEN 5 ELSE 0)
    + (IF fa.testFiles > 0 THEN 10 ELSE 0)

activity(rs, ca) ==
    IF rs.totalCommits > 0
    THEN 5 + (IF rs.totalCommits >= 10 THEN 5 ELSE 0)
           + (IF rs.totalCommits >= 25 THEN 5 ELSE 0)
           + (IF ca.avgCommitMessageLength > 20 THEN 5 ELSE 0)
    ELSE 0

best_practices(fa) ==
      (IF fa.hasCICD THEN 7 ELSE 0)
    + (IF InStr("gitignore", fa.configFiles) THEN 5 ELSE 0)
    + (IF InStr("LICENSE", fa.configFiles) THEN 3 ELSE 0)

Breakdown(rs, fa, ca, ra) ==
    [codeQuality |-> code_quality(fa),
     documentation |-> documentation(ra),
     structure |-> structure(rs, fa),
     activity |-> activity(rs, ca),
     bestPractices |-> best_practices(fa)]

SumBreakdown(b) ==
    b.codeQuality + b.documentation + b.structure + b.activity + b.bestPractices

\* Variant of total_score that leaves bestPractices out of the sum.
total_score_without_best_practices(rs, fa, ca, ra) ==
    code_quality(fa) + documentation(ra) + structure(rs, fa) + activity(rs, ca)

total_score(rs, fa, ca, ra) == SumBreakdown(Breakdown(rs, fa, ca, ra))

\* Variant of RatingOf with strict comparisons.
RatingOf_strict(score) ==
    IF score > 85 THEN "Gold"
    ELSE IF score > 70 THEN "Silver"
    ELSE IF score > 50 THEN "Bronze"
    ELSE "Beginner"

RatingOf(score) ==
    IF score >= 85 THEN "Gold"
    ELSE IF score >= 70 THEN "Silver"
    ELSE IF score >= 50 THEN "Bronze"
    ELSE "Beginner"

ColorOf(score) ==
    IF score >= 85 THEN "text-yellow-600"
    ELSE IF score >= 70 THEN "text-gray-600"
    ELSE IF score >= 50 THEN "text-orange-600"
    ELSE "text-red-600"

\* ------------------------------------------------------ Scorer: narrative
\* language, after the tech-stack fallback of lines 124-131.
LanguageOf(rs) ==
    IF rs.language = Null \/ rs.language = "" \/ rs.language = "None"
    THEN IF rs.techStack # <<>> THEN rs.techStack[1] ELSE "Multi-language"
    ELSE rs.language

Take(s, n) == IF Len(s) <= n THEN s ELSE SubSeq(s, 1, n)

specific_findings(fa, ra) ==
    <<IF ra.hasReadme
      THEN IF ra.length > 1000 THEN "comprehensive documentation"
           ELSE "basic documentation"
      ELSE "missing README documentation">>
    \o <<IF fa.testFiles > 0
         THEN IF 10 * fa.testFiles >
                 3 * (IF fa.codeFiles >= 1 THEN fa.codeFiles ELSE 1)
              THEN "good test coverage" ELSE "limited test coverage"
         ELSE "no test coverage">>
    \o <<IF fa.hasSourceFolder THEN "organized code structure"
         ELSE "unorganized file structure">>
    \o (IF fa.hasCICD THEN <<"automated CI/CD pipeline">> ELSE <<>>)

\* The summary, as the sequence of its parts.
Summary(rs, fa, ca, ra) ==
    LET language == LanguageOf(rs)
        score == total_score(rs, fa, ca, ra)
    IN <<language,
         IF Truthy(rs.description) /\ rs.description # DefaultDescription
         THEN Lower(rs.description) ELSE Lower(language)>>
       \o Take(specific_findings(fa, ra), 3)
       \o <<IF score >= 70 THEN "strong"
            ELSE IF score >= 50 THEN "solid" ELSE "needs improvement",
            IF rs.totalCommits > 20 THEN "active" ELSE "moderate">>

\* ---------------------------------------------- Scorer: security findings
\* Variant of security_vulnerabilities in which the linting check is nested
\* in the CI/CD check.
security_vulnerabilities_nested(fa) ==
       (IF ~fa.hasCICD
        THEN <<"no_cicd">> \o (IF ~fa.hasLinting THEN <<"no_linting">>
                                ELSE <<>>)
        ELSE <<>>)
    \o (IF InStrLower("config", fa.configFiles)
           \/ InStrLower(".env", fa.configFiles)
        THEN <<"config_files">> ELSE <<>>)
    \o (IF InStrLower(".json", fa.configFiles)
           \/ InStrLower("requirements.txt", fa.configFiles)
           \/ InStrLower("package.json", fa.configFiles)
        THEN <<"dependency_files">> ELSE <<>>)
    \o (IF fa.testFiles = 0 THEN <<"no_tests">> ELSE <<>>)

security_vulnerabilities(fa) ==
       (IF ~fa.hasCICD THEN <<"no_cicd">> ELSE <<>>)
    \o (IF ~fa.hasLinting THEN <<"no_linting">> ELSE <<>>)
    \o (IF InStrLower("config", fa.configFiles)
           \/ InStrLower(".env", fa.configFiles)
        THEN <<"config_files">> ELSE <<>>)
    \o (IF InStrLower(".json", fa.configFiles)
           \/ InStrLower("requirements.txt", fa.configFiles)
           \/ InStrLower("package.json", fa.configFiles)
        THEN <<"dependency_files">> ELSE <<>>)
    \o (IF fa.testFiles = 0 THEN <<"no_tests">> ELSE <<>>)

\* ------------------------------------------------------- Scorer: roadmap
\* One of the per-language phrasings of a suggestion: the source compares
\* language.lower() with 'javascript', 'python' and (where hasJava) 'java'.
Phrase(stem, language, hasJava) ==
    IF Lower(language) = "javascript" THEN <<stem, "javascript">>
    ELSE IF Lower(language) = "python" THEN <<stem, "python">>
    ELSE IF hasJava /\ Lower(language) = "java" THEN <<stem, "java">>
    ELSE <<stem, "generic">>

\* Steps 1 to 7 (lines 211-280): the primary list, in generation order.
primary_roadmap(rs, fa, ca, ra) ==
    LET language == LanguageOf(rs)
        test_files == fa.testFiles
        code_files == fa.codeFiles
    IN (IF ~ra.hasReadme THEN << <<"create_readme", "any">> >>
        ELSE IF ra.length < 300 THEN << <<"expand_readme", "any">> >>
        ELSE <<>>)
    \o (IF ra.hasReadme /\ ~ra.hasInstallation
        THEN << <<"add_installation", "any">> >> ELSE <<>>)
    \o (IF ra.hasReadme /\ ~ra.hasUsage
        THEN << <<"add_usage", "any">> >> ELSE <<>>)
    \o (IF test_files = 0 THEN <<Phrase("add_tests", language, TRUE)>>
        ELSE IF 10 * test_files < 3 * code_files
        THEN << <<"increase_coverage", "any">> >>
        ELSE <<>>)
    \o (IF ~fa.hasSourceFolder /\ code_files > 3
        THEN <<Phrase("organize_code", language, FALSE)>> ELSE <<>>)
    \o (IF ~fa.hasCICD THEN <<Phrase("setup_ci", language, TRUE)>> ELSE <<>>)
    \o (IF ~fa.hasLinting THEN <<Phrase("add_linter", language, TRUE)>>
        ELSE <<>>)
    \o (IF ca.avgCommitMessageLength < 20
        THEN << <<"improve_commit_messages", "any">> >> ELSE <<>>)
    \o (IF Lower(language) = "javascript"
           /\ ~InStrLower("package.json", fa.configFiles)
        THEN << <<"add_package_json", "any">> >>
        ELSE IF Lower(language) = "python"
                /\ ~InStrLower("requirements.txt", fa.configFiles)
                /\ ~InStrLower("pyproject.toml", fa.configFiles)
        THEN << <<"add_requirements", "any">> >>
        ELSE <<>>)

\* The conditional backfill entries of lines 290-303, appended in order.
conditional_backfill(roadmap, fa, ca, ra) ==
    LET r1 == IF fa.hasSourceFolder = FALSE
              THEN Append(roadmap, <<"directory_structure", "any">>)
              ELSE roadmap
        r2 == IF ca.uniqueAuthors <= 1
              THEN Append(r1, <<"encourage_collaboration", "any">>) ELSE r1
        r3 == IF fa.hasDocsFolder = FALSE
              THEN Append(r2, <<"docs_folder", "any">>) ELSE r2
        r4 == IF ra.hasBadges = FALSE /\ ra.hasReadme
              THEN Append(r3, <<"readme_badges", "any">>) ELSE r3
    IN IF fa.hasLinting = FALSE /\ Len(r4) < 5
       THEN Append(r4, <<"linter_config", "any">>) ELSE r4

additional_items ==
    << <<"error_handling", "any">>, <<"logging", "any">>,
       <<"contribution_guidelines", "any">>, <<"automated_review", "any">> >>

InSeq(x, s) == \E i \in 1..Len(s) : s[i] = x

\* for item in additional_items (lines 314-316), from index i on.
RECURSIVE add_items(_, _)
add_items(roadmap, i) ==
    IF i > Len(additional_items) THEN roadmap
    ELSE add_items(IF ~InSeq(additional_items[i], roadmap) /\ Len(roadmap) < 5
                   THEN Append(roadmap, additional_items[i]) ELSE roadmap,
                   i + 1)

\* Variant of fill_loop whose guard lets the counter reach -1.
RECURSIVE fill_loop_off_by_one(_, _, _)
fill_loop_off_by_one(roadmap, missing_items_needed, iterations) ==
    IF Len(roadmap) < 5 /\ missing_items_needed >= 0
    THEN fill_loop_off_by_one(add_items(roadmap, 1), missing_items_needed - 1,
                              iterations + 1)
    ELSE [roadmap |-> roadmap, iterations |-> iterations]

\* The while loop of lines 306-317.  Returns the list and the number of
\* iterations the loop ran.
RECURSIVE fill_loop(_, _, _)
fill_loop(roadmap, missing_items_needed, iterations) ==
    IF Len(roadmap) < 5 /\ missing_items_needed > 0
    THEN fill_loop(add_items(roadmap, 1), missing_items_needed - 1,
                   iterations + 1)
    ELSE [roadmap |-> roadmap, iterations |-> iterations]

\* Lines 282-317: truncate to 6, or backfill towards 5.
sized_roadmap(rs, fa, ca, ra) ==
    LET roadmap == primary_roadmap(rs, fa, ca, ra)
    IN IF Len(roadmap) > 6 THEN Take(roadmap, 6)
       ELSE IF Len(roadmap) < 5
       THEN fill_loop(conditional_backfill(roadmap, fa, ca, ra),
                      5 - Len(roadmap), 0).roadmap
       ELSE roadmap

\* --------------------------------------------------- Scorer: the function
\* The steps of the try block that raise on the values the model sends:
\*   line 60   configFiles > 0 on a list (reached only when codeFiles > 0)
\*   line 136  description.lower() on a number
\*   line 138, 228-277  language.lower() on a number (line 277 always runs)
\*   line 333  description.lower() on null
ScorerRaises(rs, fa) ==
    \/ fa.codeFiles > 0 /\ ~IsCount(fa.configFiles)
    \/ rs.description = NonStr
    \/ LanguageOf(rs) = NonStr
    \/ rs.description = Null

\* Variant of degraded_assessment whose score is not the canned 50.
degraded_assessment_zero ==
    [score |-> 0,
     rating |-> "Beginner",
     color |-> "text-red-600",
     breakdown |-> [codeQuality |-> 0, documentation |-> 0,
                    structure |-> 0, activity |-> 0, bestPractices |-> 0],
     summary |-> <<"analysis error">>,
     projectDescription |-> <<"analysis error">>,
     techStackAnalysis |-> <<"analysis error">>,
     feedback |-> <<"analysis error">>,
     securityVulnerabilities |-> <<>>,
     roadmap |-> <<>>,
     isAIGenerated |-> FALSE]

\* The except branch, lines 341-368.
degraded_assessment ==
    [score |-> 50,
     rating |-> "Bronze",
     color |-> "text-orange-600",
     breakdown |-> [codeQuality |-> 10, documentation |-> 10,
                    structure |-> 10, activity |-> 10, bestPractices |-> 10],
     summary |-> <<"analysis error">>,
     projectDescription |-> <<"analysis error">>,
     techStackAnalysis |-> <<"analysis error">>,
     feedback |-> <<"analysis error">>,
     securityVulnerabilities |-> <<"analysis_failed">>,
     roadmap |-> << <<"fix_analysis", "any">>, <<"add_readme", "any">>,
                    <<"unit_testing", "any">>, <<"ci_pipeline", "any">>,
                    <<"linting_formatting", "any">> >>,
     isAIGenerated |-> FALSE]

\* The return of the try block, lines 321-339.
computed_assessment(rs, fa, ca, ra) ==
    LET score == total_score(rs, fa, ca, ra)
        language == LanguageOf(rs)
    IN [score |-> score,
        rating |-> RatingOf(score),
        color |-> ColorOf(score),
        breakdown |-> Breakdown(rs, fa, ca, ra),
        summary |-> Summary(rs, fa, ca, ra),
        projectDescription |->
            <<language,
              IF rs.description # DefaultDescription
              THEN Lower(rs.description) ELSE "a software development project",
              IF fa.testFiles > 0 THEN "with testing"
              ELSE "without formal testing">>,
        techStackAnalysis |-> <<language>>,
        feedback |->
            <<IF fa.hasSourceFolder THEN "well-structured" ELSE "basic",
              IF ra.length > 500 THEN "comprehensive" ELSE "minimal",
              IF fa.testFiles > 0 THEN "exists" ELSE "missing",
              IF fa.hasCICD THEN "include CI/CD" ELSE "lack automation">>,
        securityVulnerabilities |-> security_vulnerabilities(fa),
        roadmap |-> Take(sized_roadmap(rs, fa, ca, ra), 6),
        isAIGenerated |-> FALSE]

fallback_analysis(rs, fa, ca, ra) ==
    IF ScorerRaises(rs, fa) THEN degraded_assessment
    ELSE computed_assessment(rs, fa, ca, ra)

\* ------------------------------------------------- AI Judge: answer text
\* An answer text is a sequence of these tokens: the code-fence marker
\* (three backquotes), the word json (also the model's word of prose), the
\* two braces, a JSON number, the words
\* "An error occurred", and the member "rating": <judge.rating> of an object
\* (the commas between members are not written).
FENCE == "fence"
Tokens ==
    {FENCE, "json", "{", "}", "7", "An error occurred", "rating"}
MemberTokens == {"rating"}

Absent == "<absent>"
Unhashable == "<list>"
Ratings == {"Gold", "Silver", "Bronze", "Beginner"}
\* Values of the rating member: the four names, another string, and a JSON
\* list (which dict.get cannot hash).
RatingValues == Ratings \cup {"Platinum", Unhashable}

StartsWith(text, prefix) ==
    Len(text) >= Len(prefix) /\ SubSeq(text, 1, Len(prefix)) = prefix

\* str.replace(pat, empty): every occurrence of pat, left to right, is removed.
RECURSIVE RemoveAll(_, _)
RemoveAll(text, pat) ==
    IF Len(text) < Len(pat) \/ Len(text) = 0 THEN text
    ELSE IF StartsWith(text, pat)
    THEN RemoveAll(SubSeq(text, Len(pat) + 1, Len(text)), pat)
    ELSE <<Head(text)>> \o RemoveAll(Tail(text), pat)

\* Lines 463-469 (the texts of the model carry no outer white space).
cleaned_response(text) ==
    IF StartsWith(text, <<FENCE, "json">>)
    THEN RemoveAll(RemoveAll(text, <<FENCE, "json">>), <<FENCE>>)
    ELSE IF StartsWith(text, <<FENCE>>)
    THEN RemoveAll(text, <<FENCE>>)
    ELSE text

\* re.search of a brace, anything, a brace (DOTALL, greedy): from the first "{" to the last "}"
\* after it; <<>> when there is no match.
json_match(text) ==
    LET opens == {i \in 1..Len(text) : text[i] = "{"}
        first == CHOOSE i \in opens : \A k \in opens : i <= k
        closes == {j \in 1..Len(text) : text[j] = "}" /\ j > first}
        last == CHOOSE j \in closes : \A k \in closes : k <= j
    IN IF opens = {} THEN <<>>
       ELSE IF closes = {} THEN <<>>
       ELSE SubSeq(text, first, last)

\* json.loads on a token sequence: an object is a pair of braces around
\* members; a lone number is valid JSON that is not an object; anything else
\* is a JSONDecodeError.
json_loads(text, rating) ==
    IF Len(text) >= 2 /\ text[1] = "{" /\ text[Len(text)] = "}"
       /\ \A i \in 2..(Len(text) - 1) : text[i] \in MemberTokens
    THEN [kind |-> "object",
          rating |-> IF \E i \in 2..(Len(text) - 1) : text[i] = "rating"
                     THEN rating ELSE Absent]
    ELSE IF text = <<"7">> THEN [kind |-> "number", rating |-> Absent]
    ELSE [kind |-> "decode_error", rating |-> Absent]

\* Lines 473-477.
ai_response(text, rating) ==
    LET cleaned == cleaned_response(text)
    IN IF json_match(cleaned) # <<>> THEN json_loads(json_match(cleaned), rating)
       ELSE json_loads(cleaned, rating)

\* Line 459 and the two except clauses: the answer is adopted iff the text is
\* truthy, does not start with "An error occurred", parses (line 496
\* catches a JSONDecodeError), the parsed value accepts item assignment and
\* its rating can be looked up (line 503 catches the TypeError of line 480
\* on a number and of line 490 on a list).
Adopted(answer, rating) ==
    /\ ~answer.none
    /\ answer.text # <<>>
    /\ ~StartsWith(answer.text, <<"An error occurred">>)
    /\ ai_response(answer.text, rating).kind = "object"
    /\ ai_response(answer.text, rating).rating # Unhashable

\* Variant of color_map whose default is the Bronze token.
color_map_default_bronze(rating) ==
    CASE rating = "Gold" -> "text-yellow-600"
      [] rating = "Silver" -> "text-gray-600"
      [] rating = "Beginner" -> "text-red-600"
      [] OTHER -> "text-orange-600"

\* Lines 484-490: color_map.get(ai_response.get('rating', 'Beginner'), red).
color_map(rating) ==
    LET key == IF rating = Absent THEN "Beginner" ELSE rating
    IN CASE key = "Gold" -> "text-yellow-600"
         [] key = "Silver" -> "text-gray-600"
         [] key = "Bronze" -> "text-orange-600"
         [] key = "Beginner" -> "text-red-600"
         [] OTHER -> "text-red-600"

\* Lines 479-494: the adopted answer with the handler's three fields.
adopted_response(text, rating, rs) ==
    [answer |-> ai_response(text, rating),
     isAIGenerated |-> TRUE,
     techStack |-> rs.techStack,
     color |-> color_map(ai_response(text, rating).rating)]

\* ------------------------------------------------------------ the handler
NoResponse == [kind |-> "none", status |-> 0, body |-> <<>>]

\* Line 393.
test_acknowledgement ==
    [kind |-> "ack", status |-> 200,
     body |-> [status |-> "ok", message |-> "Backend is running"]]

\* Lines 514-516.
error_response ==
    [kind |-> "error", status |-> 500, body |-> [error |-> "exception text"]]

\* chat_with_groq, lines 28-42: None without a client, on an exception of the
\* upstream call and on an upstream None; the answer text otherwise.
NoneText == [none |-> TRUE, text |-> <<>>]

chat_with_groq(client, j) ==
    IF ~client THEN NoneText
    ELSE IF j.kind = "text" THEN [none |-> FALSE, text |-> j.text]
    ELSE NoneText

\* Variant of IsTestRequest that never recognises the test field.
IsTestRequest_never(d) == FALSE

\* Line 392: the payload asks for the acknowledgement only.
IsTestRequest(d) == d.test

\* Lines 396-405 raise when a nested value is not an object; line 514
\* catches it.
TransportFault(d) == ~d.repoSummaryIsDict

\* Lines 409-456: the handler calls the AI Judge iff the client exists and
\* building the prompt did not raise (readme_content[:500] on null does).
CallsJudge(client, d) == client /\ d.readmeContent # Null

\* Variant of AdoptsAnswer that adopts every text the call returned.
AdoptsAnswer_unparsed(answer, rating) == ~answer.none

\* Lines 459-504: the answer text that chat_with_groq returned is adopted.
AdoptsAnswer(answer, rating) == Adopted(answer, rating)

\* Line 392-393.
TestAck ==
    /\ pc = "received"
    /\ IsTestRequest(data)
    /\ response' = test_acknowledgement
    /\ pc' = "done"
    /\ UNCHANGED <<groq_client, judge, data, ai_response_text, judgeCalls,
                   scorerCalls>>

\* Lines 396-405 and 514-516.
TransportError ==
    /\ pc = "received"
    /\ ~IsTestRequest(data)
    /\ TransportFault(data)
    /\ response' = error_response
    /\ pc' = "done"
    /\ UNCHANGED <<groq_client, judge, data, ai_response_text, judgeCalls,
                   scorerCalls>>

\* Variant of CallJudge that calls again after an answer it cannot adopt.
CallJudge_retrying ==
    /\ \/ pc = "received"
       \/ pc = "ai_returned" /\ ~AdoptsAnswer(ai_response_text, judge.rating)
    /\ ~IsTestRequest(data)
    /\ ~TransportFault(data)
    /\ CallsJudge(groq_client, data)
    /\ ai_response_text' = chat_with_groq(groq_client, judge)
    /\ judgeCalls' = judgeCalls + 1
    /\ pc' = "ai_returned"
    /\ UNCHANGED <<groq_client, judge, data, response, scorerCalls>>

\* Lines 409-457: the prompt is built and chat_with_groq is called.
CallJudge ==
    /\ pc = "received"
    /\ ~IsTestRequest(data)
    /\ ~TransportFault(data)
    /\ CallsJudge(groq_client, data)
    /\ ai_response_text' = chat_with_groq(groq_client, judge)
    /\ judgeCalls' = judgeCalls + 1
    /\ pc' = "ai_returned"
    /\ UNCHANGED <<groq_client, judge, data, response, scorerCalls>>

\* Variant of AdoptAnswer that also runs the Scorer and returns the
\* answer with the Scorer's score.
AdoptAnswer_merging ==
    /\ pc = "ai_returned"
    /\ AdoptsAnswer(ai_response_text, judge.rating)
    /\ response' = [kind |-> "ai", status |-> 200,
                    body |-> [adopted_response(ai_response_text.text,
                                               judge.rating,
                                               data.repoSummary)
                              EXCEPT !.answer =
                                  fallback_analysis(data.repoSummary,
                                                    data.fileAnalysis,
                                                    data.commitAnalysis,
                                                    data.readmeAnalysis)]]
    /\ scorerCalls' = scorerCalls + 1
    /\ pc' = "done"
    /\ UNCHANGED <<groq_client, judge, data, ai_response_text, judgeCalls>>

\* Lines 459-494: the answer is parsed, completed and returned.
AdoptAnswer ==
    /\ pc = "ai_returned"
    /\ AdoptsAnswer(ai_response_text, judge.rating)
    /\ response' = [kind |-> "ai", status |-> 200,
                    body |-> adopted_response(ai_response_text.text,
                                              judge.rating,
                                              data.repoSummary)]
    /\ pc' = "done"
    /\ UNCHANGED <<groq_client, judge, data, ai_response_text, judgeCalls,
                   scorerCalls>>

\* Lines 506-512, reached without an AI attempt (no client, or the prompt
\* raised) or after an attempt whose answer was not adopted.
UseFallback ==
    /\ \/ /\ pc = "received"
          /\ ~IsTestRequest(data)
          /\ ~TransportFault(data)
          /\ ~CallsJudge(groq_client, data)
       \/ /\ pc = "ai_returned"
          /\ ~AdoptsAnswer(ai_response_text, judge.rating)
    /\ response' = [kind |-> "assessment", status |-> 200,
                    body |-> fallback_analysis(data.repoSummary,
                                               data.fileAnalysis,
                                               data.commitAnalysis,
                                               data.readmeAnalysis)]
    /\ scorerCalls' = scorerCalls + 1
    /\ pc' = "done"
    /\ UNCHANGED <<groq_client, judge, data, ai_response_text, judgeCalls>>

Next == TestAck \/ TransportError \/ CallJudge \/ AdoptAnswer \/ UseFallback

\* ------------------------------------------------------------- requests
CountOf(n) == [typ |-> "int", count |-> n, names |-> {}]
ListOf(names) == [typ |-> "list", count |-> 0, names |-> names]

\* The payload with every key missing: each dict.get returns its default.
DefaultSummary ==
    [language |-> Null, description |-> DefaultDescription,
     techStack |-> <<>>, totalFiles |-> 0, totalCommits |-> 0]
DefaultFiles ==
    [codeFiles |-> 0, testFiles |-> 0, configFiles |-> CountOf(0),
     hasSourceFolder |-> FALSE, hasDocsFolder |-> FALSE,
     hasLinting |-> FALSE, hasCICD |-> FALSE]
DefaultCommits == [avgCommitMessageLength |-> 0, uniqueAuthors |-> 0]
DefaultReadme ==
    [hasReadme |-> FALSE, length |-> 0, hasInstallation |-> FALSE,
     hasUsage |-> FALSE, hasExamples |-> FALSE, hasLicense |-> FALSE,
     hasBadges |-> FALSE]

Request(rs, fa, ca, ra) ==
    [test |-> FALSE, repoSummaryIsDict |-> TRUE, readmeContent |-> "text",
     repoSummary |-> rs, fileAnalysis |-> fa, commitAnalysis |-> ca,
     readmeAnalysis |-> ra]

DefaultRequest ==
    Request(DefaultSummary, DefaultFiles, DefaultCommits, DefaultReadme)

\* Every field at its best value, language neither JavaScript nor Python.
MaximalSummary ==
    [language |-> "Go", description |-> "A Parser",
     techStack |-> <<"Go">>, totalFiles |-> 20, totalCommits |-> 30]
MaximalFiles ==
    [codeFiles |-> 10, testFiles |-> 5, configFiles |-> CountOf(1),
     hasSourceFolder |-> TRUE, hasDocsFolder |-> TRUE,
     hasLinting |-> TRUE, hasCICD |-> TRUE]
MaximalCommits == [avgCommitMessageLength |-> 25, uniqueAuthors |-> 2]
MaximalReadme ==
    [hasReadme |-> TRUE, length |-> 1200, hasInstallation |-> TRUE,
     hasUsage |-> TRUE, hasExamples |-> TRUE, hasLicense |-> TRUE,
     hasBadges |-> TRUE]
MaximalRequest ==
    Request(MaximalSummary, MaximalFiles, MaximalCommits, MaximalReadme)

\* Requests with values outside the declared types, and the two requests
\* the handler answers without analysis.
OddRequests ==
    {[MaximalRequest EXCEPT !.repoSummary.language = NonStr],
     [MaximalRequest EXCEPT !.repoSummary.description = Null],
     [DefaultRequest EXCEPT !.repoSummary.description = NonStr],
     [DefaultRequest EXCEPT !.repoSummary.techStack = <<"TypeScript">>],
     [DefaultRequest EXCEPT !.repoSummary.techStack = <<NonStr>>],
     [MaximalRequest EXCEPT
         !.fileAnalysis.configFiles = ListOf({".gitignore", "LICENSE"})],
     [DefaultRequest EXCEPT
         !.fileAnalysis.configFiles =
             ListOf({".gitignore", "LICENSE", "package.json", ".env"})],
     [DefaultRequest EXCEPT !.readmeContent = Null],
     [MaximalRequest EXCEPT !.readmeContent = Null],
     [DefaultRequest EXCEPT !.repoSummaryIsDict = FALSE],
     [MaximalRequest EXCEPT !.test = TRUE],
     [DefaultRequest EXCEPT !.test = TRUE, !.repoSummaryIsDict = FALSE]}

CoreRequests == {DefaultRequest, MaximalRequest} \cup OddRequests

\* Every combination of the inputs the five scores read, each number on
\* both sides of the thresholds the source compares it with.
ScoreRequests ==
    {Request([DefaultSummary EXCEPT !.language = "Go", !.totalFiles = tf,
                                    !.totalCommits = tc],
             [codeFiles |-> cf, testFiles |-> tst, configFiles |-> CountOf(cfg),
              hasSourceFolder |-> fl[1], hasDocsFolder |-> FALSE,
              hasLinting |-> fl[2], hasCICD |-> fl[3]],
             [avgCommitMessageLength |-> avg, uniqueAuthors |-> 1],
             [hasReadme |-> rd[1], length |-> len, hasInstallation |-> rd[2],
              hasUsage |-> rd[3], hasExamples |-> rd[4], hasLicense |-> rd[5],
              hasBadges |-> FALSE]) :
        tf \in {5, 6, 15, 16}, tc \in {0, 9, 10, 24, 25}, cf \in {0, 10},
        tst \in {0, 5}, cfg \in {0, 1}, avg \in {20, 21}, len \in {500, 501},
        fl \in [1..3 -> BOOLEAN], rd \in [1..5 -> BOOLEAN]}

\* Every combination of the inputs the roadmap reads.
RoadmapRequests ==
    {Request([DefaultSummary EXCEPT !.language = lang],
             [codeFiles |-> files[1], testFiles |-> files[2],
              configFiles |-> CountOf(1),
              hasSourceFolder |-> fl[1], hasDocsFolder |-> fl[2],
              hasLinting |-> fl[3], hasCICD |-> fl[4]],
             [avgCommitMessageLength |-> avg, uniqueAuthors |-> authors],
             [hasReadme |-> rd[1], length |-> len, hasInstallation |-> rd[2],
              hasUsage |-> rd[3], hasExamples |-> FALSE, hasLicense |-> FALSE,
              hasBadges |-> rd[4]]) :
        lang \in {"JavaScript", "Python", "Java", "Go"},
        files \in {0, 3, 4, 10} \X {0, 1, 3}, avg \in {19, 20},
        authors \in {1, 2}, len \in {299, 300},
        fl \in [1..4 -> BOOLEAN], rd \in [1..4 -> BOOLEAN]}

\* ------------------------------------------------------------ AI Judges
Texts == UNION {[1..n -> Tokens] : n \in 0..MaxTextLen}

Unconfigured == [kind |-> "unconfigured", text |-> <<>>, rating |-> Absent]

HasRatingToken(text) == \E i \in 1..Len(text) : text[i] = "rating"

\* Every behaviour of a configured AI Judge: the call raises, returns None,
\* or returns a text; rating is the value of the rating members of the text.
ConfiguredJudges ==
    {[kind |-> "raises", text |-> <<>>, rating |-> Absent],
     [kind |-> "none", text |-> <<>>, rating |-> Absent]}
    \cup {[kind |-> "text", text |-> t, rating |-> Absent] :
            t \in {u \in Texts : ~HasRatingToken(u)}}
    \cup {[kind |-> "text", text |-> t, rating |-> r] :
            t \in {u \in Texts : HasRatingToken(u)}, r \in RatingValues}

\* A few behaviours, for the requests whose analysis is the subject.
FewJudges ==
    {Unconfigured,
     [kind |-> "raises", text |-> <<>>, rating |-> Absent],
     [kind |-> "text", text |-> <<"json">>, rating |-> Absent],
     [kind |-> "text", text |-> <<"{", "rating", "}">>, rating |-> "Silver"]}

InitWith(requests, judges) ==
    /\ data \in requests
    /\ judge \in judges
    /\ groq_client = (judge.kind # "unconfigured")
    /\ pc = "received"
    /\ ai_response_text = NoneText
    /\ response = NoResponse
    /\ judgeCalls = 0
    /\ scorerCalls = 0

\* One request is being handled.  Every behaviour of the AI Judge is
\* combined with two requests, every odd request with a few behaviours, and
\* the requests that span the Scorer's inputs run without an AI Judge.
Init ==
    \/ InitWith(CoreRequests, FewJudges)
    \/ InitWith({DefaultRequest, MaximalRequest}, ConfiguredJudges)
    \/ InitWith(ScoreRequests \cup RoadmapRequests, {Unconfigured})

Spec == Init /\ [][Next]_vars

\* =============================================================== claims
\* The four inputs of the request being handled.
RS == data.repoSummary
FA == data.fileAnalysis
CA == data.commitAnalysis
RA == data.readmeAnalysis

\* The Scorer produced the response.
FromScorer == response.kind = "assessment"
\* ... on the return of its try block, not of its except branch.
FromScorerTry == FromScorer /\ ~ScorerRaises(RS, FA)

\* C1: on every return path of the Scorer, the degraded one included, the
\* score is the sum of the five breakdown values, lies in 0..100, and each
\* dimension lies within its cap (25, 20, 20, 20, 15).
C1_ScoreIsSumWithinCaps ==
    FromScorer =>
        LET b == response.body.breakdown
            score == response.body.score
        IN /\ score = b.codeQuality + b.documentation + b.structure
                      + b.activity + b.bestPractices
           /\ score \in 0..100
           /\ b.codeQuality \in 0..25
           /\ b.documentation \in 0..20
           /\ b.structure \in 0..20
           /\ b.activity \in 0..20
           /\ b.bestPractices \in 0..15

\* C1 witness: Scenario B of the spec, every dimension at its reachable
\* maximum with a counted configFiles.
C1_Witness ==
    /\ FromScorerTry
    /\ response.body.score = 92
    /\ response.body.breakdown.bestPractices = 7

\* C2: the roadmap of every Assessment of the Scorer has 5 or 6 entries.
C2_RoadmapLength5or6 ==
    FromScorer => Len(response.body.roadmap) \in {5, 6}

\* C3: the rating is decided by the score alone through the thresholds
\* 85 / 70 / 50, the boundary scores map as listed, the mapping is monotonic
\* and the color is the fixed token of the rating.
C3_RatingFromScore ==
    /\ FromScorer =>
        LET score == response.body.score
            rating == response.body.rating
        IN /\ (score >= 85) = (rating = "Gold")
           /\ (score >= 70 /\ score < 85) = (rating = "Silver")
           /\ (score >= 50 /\ score < 70) = (rating = "Bronze")
           /\ (score < 50) = (rating = "Beginner")
           /\ response.body.color =
                CASE rating = "Gold" -> "text-yellow-600"
                  [] rating = "Silver" -> "text-gray-600"
                  [] rating = "Bronze" -> "text-orange-600"
                  [] rating = "Beginner" -> "text-red-600"
    /\ <<RatingOf(85), RatingOf(84), RatingOf(70), RatingOf(69), RatingOf(50),
         RatingOf(49)>>
         = <<"Gold", "Silver", "Silver", "Bronze", "Bronze", "Beginner">>
    /\ LET rank == [r \in Ratings |->
                      CASE r = "Beginner" -> 0 [] r = "Bronze" -> 1
                        [] r = "Silver" -> 2 [] r = "Gold" -> 3]
       IN \A s \in 0..99 : rank[RatingOf(s)] <= rank[RatingOf(s + 1)]

\* C3 witness: a computed score on a threshold.
C3_Witness ==
    /\ FromScorerTry
    /\ response.body.score = 70
    /\ response.body.rating = "Silver"

\* C4 as stated: each of codeQuality, documentation, structure and activity
\* is the sum of the bonuses of its row, every condition counted on its own.
C4_ConditionsIndependent ==
    FromScorerTry =>
        LET b == response.body.breakdown
            pts(cond, n) == IF cond THEN n ELSE 0
        IN /\ b.codeQuality =
                pts(FA.codeFiles > 0, 10) + pts(FA.hasSourceFolder, 5)
                + pts(FA.configFiles.count > 0, 5) + pts(FA.hasLinting, 5)
           /\ b.documentation =
                pts(RA.hasReadme, 5) + pts(RA.length > 500, 5)
                + pts(RA.hasInstallation, 3) + pts(RA.hasUsage, 3)
                + pts(RA.hasExamples, 2) + pts(RA.hasLicense, 2)
           /\ b.structure =
                pts(RS.totalFiles > 5, 5) + pts(RS.totalFiles > 15, 5)
                + pts(FA.testFiles > 0, 10)
           /\ b.activity =
                pts(RS.totalCommits > 0, 5) + pts(RS.totalCommits >= 10, 5)
                + pts(RS.totalCommits >= 25, 5)
                + pts(CA.avgCommitMessageLength > 20, 5)

\* C4 amended: the conditions of the structure row count independently; in
\* the other three rows the first condition gates the row: codeQuality is 0
\* unless codeFiles > 0, documentation is 0 unless hasReadme, activity is 0
\* unless totalCommits > 0, and under its gate a row is the sum of its
\* bonuses.
C4_FirstConditionGatesRow ==
    FromScorerTry =>
        LET b == response.body.breakdown
            pts(cond, n) == IF cond THEN n ELSE 0
        IN /\ b.codeQuality =
                pts(FA.codeFiles > 0,
                    10 + pts(FA.hasSourceFolder, 5)
                    + pts(FA.configFiles.count > 0, 5) + pts(FA.hasLinting, 5))
           /\ b.documentation =
                pts(RA.hasReadme,
                    5 + pts(RA.length > 500, 5) + pts(RA.hasInstallation, 3)
                    + pts(RA.hasUsage, 3) + pts(RA.hasExamples, 2)
                    + pts(RA.hasLicense, 2))
           /\ b.structure =
                pts(RS.totalFiles > 5, 5) + pts(RS.totalFiles > 15, 5)
                + pts(FA.testFiles > 0, 10)
           /\ b.activity =
                pts(RS.totalCommits > 0,
                    5 + pts(RS.totalCommits >= 10, 5)
                    + pts(RS.totalCommits >= 25, 5)
                    + pts(CA.avgCommitMessageLength > 20, 5))

\* C4 witness: no code files, yet a source folder, config files and linting;
\* no README, yet a long one with all sections; no commits, yet long
\* messages: the three gated rows score 0.
C4_Witness ==
    /\ FromScorerTry
    /\ FA.codeFiles = 0 /\ FA.hasSourceFolder /\ FA.hasLinting
    /\ FA.configFiles.count > 0
    /\ ~RA.hasReadme /\ RA.length > 500 /\ RA.hasInstallation /\ RA.hasUsage
    /\ RS.totalCommits = 0 /\ CA.avgCommitMessageLength > 20
    /\ response.body.breakdown.codeQuality = 0
    /\ response.body.breakdown.documentation = 0
    /\ response.body.breakdown.activity = 0

\* C5: when a step of the Scorer raises (a language that is not a string, a
\* description that is null or not a string, a configFiles list compared
\* with 0), the call returns the fixed degraded Assessment, and the endpoint
\* answers with it and status 200, never with the error payload.
C5_DegradedAssessmentOnFault ==
    /\ scorerCalls > 0 => response.kind = "assessment" /\ response.status = 200
    /\ ( /\ scorerCalls > 0
         /\ \/ RS.language = NonStr
            \/ RS.language = Null /\ RS.techStack = <<NonStr>>
            \/ RS.description \in {Null, NonStr}
            \/ ~IsCount(FA.configFiles) /\ FA.codeFiles > 0 )
       => /\ response.body.score = 50
          /\ response.body.rating = "Bronze"
          /\ response.body.breakdown =
               [codeQuality |-> 10, documentation |-> 10, structure |-> 10,
                activity |-> 10, bestPractices |-> 10]
          /\ response.body.roadmap =
               << <<"fix_analysis", "any">>, <<"add_readme", "any">>,
                  <<"unit_testing", "any">>, <<"ci_pipeline", "any">>,
                  <<"linting_formatting", "any">> >>
          /\ response.body.securityVulnerabilities = <<"analysis_failed">>
          /\ response.body.isAIGenerated = FALSE

\* C5 witness: a null description, an AI Judge whose call raised, and the
\* degraded Assessment returned with status 200.
C5_Witness ==
    /\ pc = "done"
    /\ RS.description = Null
    /\ judge.kind = "raises"
    /\ scorerCalls = 1
    /\ response.status = 200
    /\ response.body.score = 50
    /\ Len(response.body.roadmap) = 5

\* The AI Judge gave no answer the handler can parse as a JSON object: no
\* client, a call that raised, None, an empty text, a text without braces,
\* or a text that does not parse as an object.
JudgeFailed ==
    \/ judge.kind \in {"unconfigured", "raises", "none"}
    \/ judge.text = <<>>
    \/ \A i \in 1..Len(judge.text) : judge.text[i] \notin {"{", "}"}
    \/ ai_response(judge.text, judge.rating).kind # "object"

\* C6: when the AI Judge is not configured, its call raises, it returns
\* nothing or an empty text, or its text does not parse as a JSON object,
\* the response is the Assessment the Scorer produces for the request's four
\* inputs, with isAIGenerated = FALSE and a success status.
C6_JudgeFailureGivesScorerAssessment ==
    (pc = "done" /\ ~data.test /\ data.repoSummaryIsDict /\ JudgeFailed)
    => /\ response =
            [kind |-> "assessment", status |-> 200,
             body |-> fallback_analysis(RS, FA, CA, RA)]
       /\ response.body.isAIGenerated = FALSE
       /\ scorerCalls = 1

\* C6 witness: the AI Judge was called, answered prose without braces, and
\* the Scorer's Assessment was returned.
C6_Witness ==
    /\ pc = "done"
    /\ judgeCalls = 1
    /\ judge.kind = "text"
    /\ Len(judge.text) = 2
    /\ \A i \in 1..Len(judge.text) : judge.text[i] = "json"
    /\ response.kind = "assessment"
    /\ response.body.isAIGenerated = FALSE

\* C7: one request calls the AI Judge at most once, not at all without a
\* client, and never again once the first call has returned.
C7_JudgeCalledAtMostOnce ==
    /\ [](judgeCalls <= 1 /\ (~groq_client => judgeCalls = 0))
    /\ [][pc # "received" => judgeCalls' = judgeCalls]_vars

\* C7 witness: a call that raised, then the Scorer, and one call in all.
C7_Witness ==
    /\ pc = "done"
    /\ judge.kind = "raises"
    /\ judgeCalls = 1
    /\ scorerCalls = 1
    /\ response.kind = "assessment"

\* C8: the security findings follow the fixed order (CI/CD, linting,
\* config/secrets, dependency manifest, tests), each at most once; the
\* CI/CD, linting and tests advisories are present exactly when the flag is
\* off or testFiles is 0; and flipping one of the three, all else fixed,
\* adds or removes that one advisory and leaves the rest of the list as is.
C8_SecurityFindingsIndependent ==
    FromScorerTry =>
        LET sec == response.body.securityVulnerabilities
            order == <<"no_cicd", "no_linting", "config_files",
                       "dependency_files", "no_tests">>
            pos(x) == CHOOSE i \in 1..5 : order[i] = x
            without(s, x) == SelectSeq(s, LAMBDA e : e # x)
            flipsOnly(fa, x) ==
                LET t == security_vulnerabilities(fa)
                IN /\ without(t, x) = without(sec, x)
                   /\ InSeq(x, t) # InSeq(x, sec)
        IN /\ \A i \in 1..Len(sec) : \E k \in 1..5 : order[k] = sec[i]
           /\ \A i, j \in 1..Len(sec) : i < j => pos(sec[i]) < pos(sec[j])
           /\ InSeq("no_cicd", sec) = ~FA.hasCICD
           /\ InSeq("no_linting", sec) = ~FA.hasLinting
           /\ InSeq("no_tests", sec) = (FA.testFiles = 0)
           /\ flipsOnly([FA EXCEPT !.hasCICD = ~@], "no_cicd")
           /\ flipsOnly([FA EXCEPT !.hasLinting = ~@], "no_linting")
           /\ flipsOnly([FA EXCEPT !.testFiles = IF @ = 0 THEN 1 ELSE 0],
                        "no_tests")

\* C8 witness: CI/CD present, linting and tests missing.
C8_Witness ==
    /\ FromScorerTry
    /\ FA.hasCICD /\ ~FA.hasLinting /\ FA.testFiles = 0
    /\ response.body.securityVulnerabilities = <<"no_linting", "no_tests">>

C10_TestRequestBypasses ==
    data.test =>
        /\ judgeCalls = 0
        /\ scorerCalls = 0
        /\ pc = "done" =>
             response = [kind |-> "ack", status |-> 200,
                         body |-> [status |-> "ok",
                                   message |-> "Backend is running"]]

\* C10 witness: a test request with a full payload and a configured AI
\* Judge, acknowledged.
C10_Witness ==
    /\ pc = "done"
    /\ data.test
    /\ groq_client
    /\ FA.codeFiles > 0
    /\ response.kind = "ack"

\* C11: a successful analyze response has exactly one producer.  Either
\* the adopted answer of the AI Judge (isAIGenerated = TRUE, its content the
\* parsed answer, the Scorer not invoked), or the Scorer (isAIGenerated =
\* FALSE, the body exactly the Scorer's output, so that none of it comes
\* from the answer); the Scorer is invoked iff no answer was adopted.
C11_ExactlyOneProducer ==
    (pc = "done" /\ response.status = 200 /\ response.kind # "ack")
    => /\ response.kind \in {"ai", "assessment"}
       /\ response.kind = "ai" =>
            /\ response.body.isAIGenerated = TRUE
            /\ response.body.answer = ai_response(judge.text, judge.rating)
            /\ judgeCalls = 1
            /\ scorerCalls = 0
       /\ response.kind = "assessment" =>
            /\ response.body.isAIGenerated = FALSE
            /\ response.body = fallback_analysis(RS, FA, CA, RA)
            /\ scorerCalls = 1
       /\ (scorerCalls = 1) = (response.kind # "ai")
       /\ scorerCalls <= 1

\* C11 witness: an adopted answer, the Scorer never invoked.
C11_Witness ==
    /\ pc = "done"
    /\ response.kind = "ai"
    /\ response.body.answer.rating = "Gold"
    /\ judgeCalls = 1
    /\ scorerCalls = 0

\* C12: when the primary list (steps 1 to 7) has fewer than 5 entries, the
\* backfill appends, in the fixed priority order (directory structure,
\* collaboration, docs folder, README badges, linter config, then the four
\* generic suggestions), only as many entries as bring the length to 5: the
\* roadmap returned on the backfill path has exactly 5 entries.
C12_BackfillReachesExactly5 ==
    (FromScorerTry /\ Len(primary_roadmap(RS, FA, CA, RA)) < 5)
    => LET primary == primary_roadmap(RS, FA, CA, RA)
           opt(cond, name) == IF cond THEN << <<name, "any">> >> ELSE <<>>
           candidates ==
                  opt(~FA.hasSourceFolder, "directory_structure")
               \o opt(CA.uniqueAuthors <= 1, "encourage_collaboration")
               \o opt(~FA.hasDocsFolder, "docs_folder")
               \o opt(RA.hasReadme /\ ~RA.hasBadges, "readme_badges")
               \o opt(~FA.hasLinting, "linter_config")
               \o << <<"error_handling", "any">>, <<"logging", "any">>,
                     <<"contribution_guidelines", "any">>,
                     <<"automated_review", "any">> >>
       IN /\ Len(response.body.roadmap) = 5
          /\ response.body.roadmap
               = primary \o SubSeq(candidates, 1, 5 - Len(primary))

C14_BackfillLoopTerminates ==
    /\ [](LET primary == primary_roadmap(RS, FA, CA, RA)
              loop == fill_loop(conditional_backfill(primary, FA, CA, RA),
                                5 - Len(primary), 0)
          IN (FromScorerTry /\ Len(primary) < 5)
             => /\ loop.iterations <= 5 - Len(primary)
                /\ Len(loop.roadmap) < 5 => loop.iterations = 5 - Len(primary)
                /\ response.body.roadmap = Take(loop.roadmap, 6))
    /\ [](pc \in {"received", "ai_returned", "done"})
    /\ []((pc = "done") = (response.kind # "none"))
    /\ [](pc = "done" =>
            response.kind =
              IF data.test THEN "ack"
              ELSE IF ~data.repoSummaryIsDict THEN "error"
              ELSE IF scorerCalls = 1 THEN "assessment" ELSE "ai")
    /\ [][ /\ response.kind = "none"
           /\ pc = "received" => pc' \in {"ai_returned", "done"}
           /\ pc = "ai_returned" => pc' = "done"
           /\ pc' = "done" => response'.kind # "none" ]_vars

\* C14 witness: the all-maximal request: the pool ran out at 4 entries, the
\* loop ran its 5 iterations and the request was answered.
C14_Witness ==
    /\ pc = "done"
    /\ FromScorerTry
    /\ primary_roadmap(RS, FA, CA, RA) = <<>>
    /\ Len(response.body.roadmap) = 4
    /\ fill_loop(conditional_backfill(<<>>, FA, CA, RA), 5, 0).iterations = 5

====
